---- MODULE Spec2Model ----
(***************************************************************************)
(* A model of the chip8vm interpreter core (src/src/chip.rs): the Chip     *)
(* state, load_program, tick_timers and tick with every instruction, and   *)
(* the three ports (Random, Screen, Keypad) the core calls into.           *)
(*                                                                         *)
(* A Rust panic (index out of range, arithmetic overflow in a build with   *)
(* overflow checks) ends the run: the model records it in `panicked` and   *)
(* no operation is called afterwards.  Whether an arithmetic overflow      *)
(* panics or wraps depends on the build; `overflow_checks` is fixed at     *)
(* construction and both builds are explored.                              *)
(***************************************************************************)
EXTENDS Integers, Sequences, FiniteSets

\* ---------------------------------------------------------------- specs.rs
NUM_RESGISTERS == 16
FLAG == 15
MEM_SIZE == 4096
PROG_START == 512
PROG_END == 3727
STACK_SIZE == 16
NUM_TIMERS == 2
DELAY_TIMER == 0
SOUND_TIMER == 1

\* ------------------------------------------------------------------ lib.rs
PROGRAM_SIZE == PROG_END - PROG_START
SCREEN_WIDTH == 64
SCREEN_HEIGHT == 32
KEYPAD_NUM_KEYS == 16

\* ----------------------------------------------------------------- font.rs
\* Sixteen glyphs of five bytes each, one per hexadecimal digit.
CHARACTERS == 16
CHARACTER_SIZE == 5

FontSet ==
    << 240, 144, 144, 144, 240,    32,  96,  32,  32, 112,
       240,  16, 240, 128, 240,   240,  16, 240,  16, 240,
       144, 144, 240,  16,  16,   240, 128, 240,  16, 240,
       240, 128, 240, 144, 240,   240,  16,  32,  64,  64,
       240, 144, 240, 144, 240,   240, 144, 240,  16, 240,
       240, 144, 240, 144, 144,   224, 144, 224, 144, 224,
       240, 128, 128, 128, 240,   224, 144, 144, 144, 224,
       240, 128, 240, 128, 240,   240, 128, 240, 128, 128 >>

\* ------------------------------------------------------- integer arithmetic
U8 == 256
U16 == 65536

\* usize::MAX, the value `0usize - 1` wraps to in a build without overflow
\* checks.  It is larger than any integer the checker holds and is written
\* as the two's-complement -1; no index in 0..STACK_SIZE-1 equals it.
USIZE_MAX == -1

RECURSIVE BitAnd(_, _)
BitAnd(a, b) ==
    IF a = 0 \/ b = 0 THEN 0
    ELSE (a % 2) * (b % 2) + 2 * BitAnd(a \div 2, b \div 2)

RECURSIVE BitOr(_, _)
BitOr(a, b) ==
    IF a = 0 THEN b
    ELSE IF b = 0 THEN a
    ELSE (IF a % 2 = 1 \/ b % 2 = 1 THEN 1 ELSE 0) + 2 * BitOr(a \div 2, b \div 2)

RECURSIVE BitXor(_, _)
BitXor(a, b) ==
    IF a = 0 THEN b
    ELSE IF b = 0 THEN a
    ELSE (((a % 2) + (b % 2)) % 2) + 2 * BitXor(a \div 2, b \div 2)

\* u8::overflowing_add / u8::overflowing_sub: <<wrapped result, overflowed>>
overflowing_add(a, b) == << (a + b) % U8, a + b >= U8 >>
overflowing_sub(a, b) == << (a - b + U8) % U8, a < b >>

\* -------------------------------------------------------------------- state
VARIABLES
    registers,        \* Chip.registers : [u8; 16]
    i,                \* Chip.i         : u16
    memory,           \* Chip.memory    : [u8; 4096], byte a at memory[a + 1]
    ip,               \* Chip.ip        : usize
    stack,            \* Chip.stack     : [u16; 16]
    sp,               \* Chip.sp        : usize
    timers,           \* Chip.timers    : [u8; 2]
    pixels,           \* the Screen port's lit pixels, as <<x, y>>
    calls,            \* the port calls of the latest tick, in order
    stack_index,      \* the index of the latest call-stack access, -2 before any
    panicked,         \* a panic has ended the run
    overflow_checks,  \* the build panics on arithmetic overflow
    rom,              \* the program bytes the host holds
    ticks,            \* number of tick calls so far
    returned,         \* what the latest tick returned: "none" before any
    opcode,           \* the opcode the latest tick fetched
    continuing,       \* chip8run: quit(context) has not been called
    host_at,          \* chip8run: where its main is, << place, loop index >>
    delay_loaded,     \* the value the latest LD DT,Vx loaded, -1 before any
    timer_calls       \* tick_timers calls since then, up to MaxTimerCalls

chip_vars == << registers, i, memory, ip, stack, sp, timers >>
vars == << registers, i, memory, ip, stack, sp, timers, pixels, calls,
           stack_index, panicked, overflow_checks, rom, ticks, returned, opcode,
           continuing, host_at, delay_loaded, timer_calls >>

\* The machine an operation works on: the Chip's fields, the Screen's
\* pixels, the port calls made so far in this tick and the panic flag.
Machine ==
    [ registers |-> registers, i |-> i, memory |-> memory, ip |-> ip,
      stack |-> stack, sp |-> sp, timers |-> timers,
      pixels |-> pixels, calls |-> calls, stack_index |-> stack_index,
      panic |-> FALSE, checks |-> overflow_checks ]

Panic(m) == [m EXCEPT !.panic = TRUE]

\* One port call, logged as << port function, argument, argument, answer >>
\* (0 for an argument or answer the function does not have; a boolean answer
\* as 1 or 0; Option<u8> None as -1).
PortCall(m, name, a, b, answer) ==
    [m EXCEPT !.calls = Append(@, << name, a, b, answer >>)]

Bit(flag) == IF flag THEN 1 ELSE 0

\* [0; MEM_SIZE]
ZeroMemory == [a \in 1..MEM_SIZE |-> 0]

\* Chip::default
Default ==
    [ registers |-> [r \in 0..(NUM_RESGISTERS - 1) |-> 0],
      i |-> 0,
      memory |-> ZeroMemory,
      ip |-> PROG_START,
      stack |-> [s \in 0..(STACK_SIZE - 1) |-> 0],
      sp |-> 0,
      timers |-> [t \in 0..(NUM_TIMERS - 1) |-> 0] ]

\* ------------------------------------------------------------- the host side
\* chip8run's load_program: the file's bytes copied into a zero-filled array
\* of PROGRAM_SIZE bytes.
program_code(bytes) == bytes \o SubSeq(ZeroMemory, 1, PROGRAM_SIZE - Len(bytes))

\* Mutant: the pixel is switched on and never off.
screen_draw_or(m, x, y) ==
    [ m |-> [PortCall(m, "draw", x, y, Bit(<< x, y >> \in m.pixels)) EXCEPT
                !.pixels = @ \cup {<< x, y >>}],
      collision |-> << x, y >> \in m.pixels ]

\* Screen::draw of chip8run: toggle the pixel, report whether it was on.
screen_draw(m, x, y) ==
    [ m |-> [PortCall(m, "draw", x, y, Bit(<< x, y >> \in m.pixels)) EXCEPT
                !.pixels = IF << x, y >> \in @ THEN @ \ {<< x, y >>}
                                               ELSE @ \cup {<< x, y >>}],
      collision |-> << x, y >> \in m.pixels ]

\* Keypad::is_pressed and Keypad::pressed_key of chip8run over the set of
\* keys held down: pressed_key is the lowest pressed keycode, -1 for None.
is_pressed(keys, keycode) == keycode \in keys

\* self.keys[keycode as usize] of a [KeyState; KEYPAD_NUM_KEYS]: the index
\* is inside the table.
in_keys(keycode) == keycode >= 0 /\ keycode < KEYPAD_NUM_KEYS

pressed_key(keys) ==
    IF keys = {} THEN -1 ELSE CHOOSE k \in keys : \A j \in keys : k <= j

\* --------------------------------------------------------------- operations
\* Mutant: the program is copied but the font set is not.
load_program_without_font(m, program) ==
    [m EXCEPT !.memory =
        SubSeq(m.memory, 1, PROG_START)
        \o program
        \o SubSeq(m.memory, PROG_START + Len(program) + 1, MEM_SIZE)]

\* Mutant: the font set and the program are copied into a cleared memory.
load_program_into_cleared_memory(m, program) ==
    [m EXCEPT !.memory =
        FontSet
        \o SubSeq(ZeroMemory, CHARACTERS * CHARACTER_SIZE + 1, PROG_START)
        \o program
        \o SubSeq(ZeroMemory, PROG_START + Len(program) + 1, MEM_SIZE)]

\* memory[..80] = font set; memory[PROG_START..PROG_START + len] = program
load_program(m, program) ==
    [m EXCEPT !.memory =
        FontSet
        \o SubSeq(m.memory, CHARACTERS * CHARACTER_SIZE + 1, PROG_START)
        \o program
        \o SubSeq(m.memory, PROG_START + Len(program) + 1, MEM_SIZE)]

\* Mutant: the timers are decremented without the `> 0` test and wrap.
tick_timers_unguarded(m) ==
    [m EXCEPT !.timers[DELAY_TIMER] = (@ + U8 - 1) % U8,
              !.timers[SOUND_TIMER] = (@ + U8 - 1) % U8]

tick_timers(m) ==
    LET d == IF m.timers[DELAY_TIMER] > 0
             THEN [m EXCEPT !.timers[DELAY_TIMER] = @ - 1] ELSE m
    IN  IF d.timers[SOUND_TIMER] > 0
        THEN [d EXCEPT !.timers[SOUND_TIMER] = @ - 1] ELSE d

\* ------------------------------------------------------------- instructions
cls(m) == [PortCall(m, "clear", 0, 0, 0) EXCEPT !.pixels = {}]

\* Mutant: the return address is read before the stack pointer is
\* decremented, from the slot above the top frame.
ret_reads_free_slot(m) ==
    IF m.sp = 0 \/ m.sp >= STACK_SIZE THEN Panic(m)
    ELSE [m EXCEPT !.sp = @ - 1, !.stack_index = m.sp, !.ip = m.stack[m.sp]]

\* self.sp -= 1; self.ip = self.stack[self.sp] as usize;
ret(m) ==
    IF m.sp = 0
    THEN IF m.checks
         THEN Panic(m)
         ELSE Panic([m EXCEPT !.sp = USIZE_MAX, !.stack_index = USIZE_MAX])
    ELSE IF m.sp - 1 >= STACK_SIZE
         THEN Panic([m EXCEPT !.sp = @ - 1, !.stack_index = m.sp - 1])
         ELSE [m EXCEPT !.sp = @ - 1, !.stack_index = m.sp - 1,
                        !.ip = m.stack[m.sp - 1]]

jmp(m, address) == [m EXCEPT !.ip = address]

\* self.stack[self.sp] = self.ip as u16; self.sp += 1; self.ip = address
call(m, address) ==
    IF m.sp >= STACK_SIZE
    THEN Panic([m EXCEPT !.stack_index = m.sp])
    ELSE [m EXCEPT !.stack[m.sp] = m.ip % U16, !.stack_index = m.sp,
                   !.sp = @ + 1, !.ip = address]

se_vx_byte(m, x, value) ==
    IF m.registers[x] = value THEN [m EXCEPT !.ip = @ + 2] ELSE m

\* Mutant: SNE Vx,byte skips on equality.
sne_vx_byte_on_equal(m, x, value) ==
    IF m.registers[x] = value THEN [m EXCEPT !.ip = @ + 2] ELSE m

sne_vx_byte(m, x, value) ==
    IF m.registers[x] # value THEN [m EXCEPT !.ip = @ + 2] ELSE m

\* Mutant: the value is stored in V0 whatever x is.
ld_vx_byte_into_v0(m, x, value) == [m EXCEPT !.registers[0] = value]

ld_vx_byte(m, x, value) == [m EXCEPT !.registers[x] = value]

\* Mutant: the carry of the addition is written to the flag register.
add_vx_byte_sets_carry(m, x, value) ==
    [m EXCEPT !.registers[x] = overflowing_add(m.registers[x], value)[1],
              !.registers[FLAG] = Bit(overflowing_add(m.registers[x], value)[2])]

add_vx_byte(m, x, value) ==
    [m EXCEPT !.registers[x] = overflowing_add(m.registers[x], value)[1]]

ld_vx_vy(m, x, y) == [m EXCEPT !.registers[x] = m.registers[y]]

or_vx_vy(m, x, y) == [m EXCEPT !.registers[x] = BitOr(@, m.registers[y])]

and_vx_vy(m, x, y) == [m EXCEPT !.registers[x] = BitAnd(@, m.registers[y])]

xor_vx_vy(m, x, y) == [m EXCEPT !.registers[x] = BitXor(@, m.registers[y])]

\* Mutant: the flag is written first and the result second, so with
\* x = FLAG the sum overwrites the carry.
add_vx_vy_flag_first(m, x, y) ==
    LET result == overflowing_add(m.registers[x], m.registers[y])
        m1 == [m EXCEPT !.registers[FLAG] = IF result[2] THEN 1 ELSE 0]
    IN  [m1 EXCEPT !.registers[x] = result[1]]

\* The result is stored in Vx first and the flag second: with x = FLAG the
\* flag write is the one that stays.
add_vx_vy(m, x, y) ==
    LET result == overflowing_add(m.registers[x], m.registers[y])
        m1 == [m EXCEPT !.registers[x] = result[1]]
    IN  [m1 EXCEPT !.registers[FLAG] = IF result[2] THEN 1 ELSE 0]

sub_vx_vy(m, x, y) ==
    LET result == overflowing_sub(m.registers[x], m.registers[y])
        m1 == [m EXCEPT !.registers[x] = result[1]]
    IN  [m1 EXCEPT !.registers[FLAG] = IF result[2] THEN 0 ELSE 1]

\* The flag is written first and Vx is shifted second (read again after the
\* flag write).
shr_vx(m, x) ==
    LET m1 == [m EXCEPT !.registers[FLAG] = m.registers[x] % 2]
    IN  [m1 EXCEPT !.registers[x] = m1.registers[x] \div 2]

\* Mutant: SUBN reports "no borrow" only when Vy is strictly greater.
subn_vx_vy_strict(m, x, y) ==
    LET result == overflowing_sub(m.registers[y], m.registers[x])
        m1 == [m EXCEPT !.registers[x] = result[1]]
    IN  [m1 EXCEPT !.registers[FLAG] =
                      IF m.registers[y] > m.registers[x] THEN 1 ELSE 0]

subn_vx_vy(m, x, y) ==
    LET result == overflowing_sub(m.registers[y], m.registers[x])
        m1 == [m EXCEPT !.registers[x] = result[1]]
    IN  [m1 EXCEPT !.registers[FLAG] = IF result[2] THEN 0 ELSE 1]

shl_vx(m, x) ==
    LET m1 == [m EXCEPT !.registers[FLAG] = m.registers[x] \div 128]
    IN  [m1 EXCEPT !.registers[x] = (m1.registers[x] * 2) % U8]

sne_vx_vy(m, x, y) ==
    IF m.registers[x] # m.registers[y] THEN [m EXCEPT !.ip = @ + 2] ELSE m

ld_i_addr(m, address) == [m EXCEPT !.i = address]

jmp_v0_addr(m, address) == [m EXCEPT !.ip = address + m.registers[0]]

rnd_vx_byte(m, rnd, x, mask) ==
    [PortCall(m, "range", 0, 0, rnd) EXCEPT !.registers[x] = BitAnd(rnd, mask)]

\* The memory index self.i + offset, computed in u16: an overflow panics in
\* a build with overflow checks and wraps otherwise; -1 stands for the panic.
index_i(m, offset) ==
    IF m.i + offset >= U16
    THEN IF m.checks THEN -1 ELSE (m.i + offset) % U16
    ELSE m.i + offset

in_memory(a) == a >= 0 /\ a < MEM_SIZE

\* self.memory[a]
byte_at(m, a) == m.memory[a + 1]

\* self.memory[(self.i + offset) as usize] = value
store_i(m, offset, value) ==
    IF m.panic THEN m
    ELSE IF in_memory(index_i(m, offset))
         THEN [m EXCEPT !.memory[index_i(m, offset) + 1] = value]
         ELSE Panic(m)

\* self.registers[register] = self.memory[(self.i + register) as usize]
load_i(m, register) ==
    IF m.panic THEN m
    ELSE IF in_memory(index_i(m, register))
         THEN [m EXCEPT !.registers[register] = byte_at(m, index_i(m, register))]
         ELSE Panic(m)

\* self.i += value, in u16
add_i(m, value) ==
    IF m.panic THEN m
    ELSE IF m.i + value >= U16
         THEN IF m.checks THEN Panic(m) ELSE [m EXCEPT !.i = (m.i + value) % U16]
         ELSE [m EXCEPT !.i = m.i + value]

\* Mutant: the sprite line is drawn mirrored, bit `displace` at column
\* vx + displace.
draw_bit_mirrored(d, vx, vy, line, data, displace) ==
    IF (data \div (2 ^ displace)) % 2 = 1
    THEN LET new_x == overflowing_add(vx, displace)[1] % SCREEN_WIDTH
             new_y == overflowing_add(vy, line)[1] % SCREEN_HEIGHT
             r == screen_draw(d.m, new_x, new_y)
         IN  [ m |-> r.m, collision |-> d.collision \/ r.collision ]
    ELSE d

\* Mutant: the coordinates are not reduced to the screen's size.
draw_bit_unwrapped(d, vx, vy, line, data, displace) ==
    IF (data \div (2 ^ displace)) % 2 = 1
    THEN LET new_x == overflowing_add(vx, 7 - displace)[1]
             new_y == overflowing_add(vy, line)[1]
             r == screen_draw(d.m, new_x, new_y)
         IN  [ m |-> r.m, collision |-> d.collision \/ r.collision ]
    ELSE d

\* One bit of one sprite line: bit `displace` (from the least significant)
\* of `data` is drawn at column vx + (7 - displace), row vy + line.
draw_bit(d, vx, vy, line, data, displace) ==
    IF (data \div (2 ^ displace)) % 2 = 1
    THEN LET new_x == overflowing_add(vx, 7 - displace)[1] % SCREEN_WIDTH
             new_y == overflowing_add(vy, line)[1] % SCREEN_HEIGHT
             r == screen_draw(d.m, new_x, new_y)
         IN  [ m |-> r.m, collision |-> d.collision \/ r.collision ]
    ELSE d

RECURSIVE draw_bits(_, _, _, _, _, _)
draw_bits(d, vx, vy, line, data, displace) ==
    IF displace >= 8 THEN d
    ELSE draw_bits(draw_bit(d, vx, vy, line, data, displace),
                   vx, vy, line, data, displace + 1)

RECURSIVE draw_lines(_, _, _, _, _)
draw_lines(d, vx, vy, lines, line) ==
    IF line >= lines THEN d
    ELSE IF in_memory(index_i(d.m, line))
         THEN draw_lines(draw_bits(d, vx, vy, line,
                                   byte_at(d.m, index_i(d.m, line)), 0),
                         vx, vy, lines, line + 1)
         ELSE [ m |-> Panic(d.m), collision |-> d.collision ]

draw_vx_vy_nibble(m, x, y, lines) ==
    LET d == draw_lines([ m |-> m, collision |-> FALSE ],
                        m.registers[x], m.registers[y], lines, 0)
    IN  IF d.m.panic THEN d.m
        ELSE [d.m EXCEPT !.registers[FLAG] = IF d.collision THEN 1 ELSE 0]

\* The call of keypad.is_pressed(vx): the host's key table is indexed by
\* vx, and the index panics when vx is no keycode (logged with answer -1).
ask_is_pressed(m, keys, vx) ==
    IF in_keys(vx)
    THEN PortCall(m, "is_pressed", vx, 0, Bit(is_pressed(keys, vx)))
    ELSE Panic(PortCall(m, "is_pressed", vx, 0, -1))

skp_vx(m, keys, x) ==
    LET m1 == ask_is_pressed(m, keys, m.registers[x])
    IN  IF m1.panic THEN m1
        ELSE IF is_pressed(keys, m.registers[x]) THEN [m1 EXCEPT !.ip = @ + 2]
        ELSE m1

sknp_vx(m, keys, x) ==
    LET m1 == ask_is_pressed(m, keys, m.registers[x])
    IN  IF m1.panic THEN m1
        ELSE IF ~is_pressed(keys, m.registers[x]) THEN [m1 EXCEPT !.ip = @ + 2]
        ELSE m1

\* Mutant: LD Vx,DT reads the sound timer.
ld_vx_dt_reads_sound(m, x) == [m EXCEPT !.registers[x] = m.timers[SOUND_TIMER]]

ld_vx_dt(m, x) == [m EXCEPT !.registers[x] = m.timers[DELAY_TIMER]]

\* Mutant: without a key the program counter is not rewound.
ld_vx_k_no_rewind(m, keys, x) ==
    LET m1 == PortCall(m, "pressed_key", 0, 0, pressed_key(keys))
    IN  IF pressed_key(keys) = -1 THEN m1
        ELSE [m1 EXCEPT !.registers[x] = pressed_key(keys)]

\* Mutant: the program counter is rewound even when a key is answered.
ld_vx_k_always_rewinds(m, keys, x) ==
    LET m1 == PortCall(m, "pressed_key", 0, 0, pressed_key(keys))
    IN  IF pressed_key(keys) = -1
        THEN [m1 EXCEPT !.ip = @ - 2]
        ELSE [m1 EXCEPT !.registers[x] = pressed_key(keys), !.ip = @ - 2]

ld_vx_k(m, keys, x) ==
    LET m1 == PortCall(m, "pressed_key", 0, 0, pressed_key(keys))
    IN  IF pressed_key(keys) = -1
        THEN [m1 EXCEPT !.ip = @ - 2]
        ELSE [m1 EXCEPT !.registers[x] = pressed_key(keys)]

ld_dt_vx(m, x) == [m EXCEPT !.timers[DELAY_TIMER] = m.registers[x]]

\* Mutant: LD ST,Vx loads both timers.
ld_st_vx_both_timers(m, x) ==
    [m EXCEPT !.timers[SOUND_TIMER] = m.registers[x],
              !.timers[DELAY_TIMER] = m.registers[x]]

ld_st_vx(m, x) == [m EXCEPT !.timers[SOUND_TIMER] = m.registers[x]]

add_i_vx(m, x) == add_i(m, m.registers[x])

\* (self.registers[x] * CHARACTER_SIZE as u8) as u16: the product is a u8
ld_f_vx(m, x) ==
    IF m.registers[x] * CHARACTER_SIZE >= U8
    THEN IF m.checks THEN Panic(m)
         ELSE [m EXCEPT !.i = (m.registers[x] * CHARACTER_SIZE) % U8]
    ELSE [m EXCEPT !.i = m.registers[x] * CHARACTER_SIZE]

\* Mutant: the tens digit is taken as vx / 10, without the `% 100`.
ld_b_vx_tens_of_whole(m, x) ==
    LET vx == m.registers[x]
    IN  store_i(store_i(store_i(m, 0, vx \div 100), 1, (vx \div 10) % U8),
                2, vx % 10)

ld_b_vx(m, x) ==
    LET vx == m.registers[x]
    IN  store_i(store_i(store_i(m, 0, vx \div 100), 1, (vx % 100) \div 10),
                2, vx % 10)

RECURSIVE store_registers(_, _, _)
store_registers(m, x, register) ==
    IF register > x THEN m
    ELSE store_registers(store_i(m, register, m.registers[register]),
                         x, register + 1)

\* Mutant: I is left where it was.
ld_vi_vx_keeps_i(m, x) == store_registers(m, x, 0)

ld_vi_vx(m, x) == add_i(store_registers(m, x, 0), x + 1)

RECURSIVE load_registers(_, _, _)
load_registers(m, x, register) ==
    IF register > x THEN m
    ELSE load_registers(load_i(m, register), x, register + 1)

\* Mutant: the loop runs over 0..x, without Vx.
ld_vx_vi_without_vx(m, x) == add_i(load_registers(m, x - 1, 0), x + 1)

ld_vx_vi(m, x) == add_i(load_registers(m, x, 0), x + 1)

\* --------------------------------------------------------------------- tick
\* Mutant: the program counter is advanced by one byte, not one word.
advance_by_one(m) == [m EXCEPT !.ip = @ + 1]

\* self.ip += 2, before the dispatch
advance(m) == [m EXCEPT !.ip = @ + 2]

\* The second-level match of the 0x8000..=0x8FFF arm, on the low nibble.
dispatch_8(m, x, y, option) ==
    CASE option = 0  -> [ m |-> ld_vx_vy(m, x, y),   execute |-> TRUE ]
      [] option = 1  -> [ m |-> or_vx_vy(m, x, y),   execute |-> TRUE ]
      [] option = 2  -> [ m |-> and_vx_vy(m, x, y),  execute |-> TRUE ]
      [] option = 3  -> [ m |-> xor_vx_vy(m, x, y),  execute |-> TRUE ]
      [] option = 4  -> [ m |-> add_vx_vy(m, x, y),  execute |-> TRUE ]
      [] option = 5  -> [ m |-> sub_vx_vy(m, x, y),  execute |-> TRUE ]
      [] option = 6  -> [ m |-> shr_vx(m, x),        execute |-> TRUE ]
      [] option = 7  -> [ m |-> subn_vx_vy(m, x, y), execute |-> TRUE ]
      [] option = 14 -> [ m |-> shl_vx(m, x),        execute |-> TRUE ]
      [] OTHER       -> [ m |-> m, execute |-> FALSE ]

\* The second-level match of the 0xE000..=0xEFFF arm, on the low byte.
dispatch_E(m, keys, x, op_low) ==
    CASE op_low = 158 -> [ m |-> skp_vx(m, keys, x),  execute |-> TRUE ]
      [] op_low = 161 -> [ m |-> sknp_vx(m, keys, x), execute |-> TRUE ]
      [] OTHER        -> [ m |-> m, execute |-> FALSE ]

\* The second-level match of the 0xF000..=0xFFFF arm, on the low byte.
dispatch_F(m, keys, x, op_low) ==
    CASE op_low = 7   -> [ m |-> ld_vx_dt(m, x),      execute |-> TRUE ]
      [] op_low = 10  -> [ m |-> ld_vx_k(m, keys, x), execute |-> TRUE ]
      [] op_low = 21  -> [ m |-> ld_dt_vx(m, x),      execute |-> TRUE ]
      [] op_low = 24  -> [ m |-> ld_st_vx(m, x),      execute |-> TRUE ]
      [] op_low = 30  -> [ m |-> add_i_vx(m, x),      execute |-> TRUE ]
      [] op_low = 41  -> [ m |-> ld_f_vx(m, x),       execute |-> TRUE ]
      [] op_low = 51  -> [ m |-> ld_b_vx(m, x),       execute |-> TRUE ]
      [] op_low = 85  -> [ m |-> ld_vi_vx(m, x),      execute |-> TRUE ]
      [] op_low = 101 -> [ m |-> ld_vx_vi(m, x),      execute |-> TRUE ]
      [] OTHER        -> [ m |-> m, execute |-> FALSE ]

\* The arm of the 0x5000..=0x5FFF range
dispatch_5(m, x, y) == sne_vx_vy(m, x, y)

\* `match opcode { ... }`: the machine after the instruction and `execute`.
dispatch(m, op, rnd, keys) ==
    LET x       == (op \div 256) % 16
        y       == (op \div 16) % 16
        option  == op % 16
        address == op % 4096
        op_low  == op % 256
        high    == op \div 4096
    IN  CASE op = 0    -> [ m |-> m, execute |-> FALSE ]
          [] op = 224  -> [ m |-> cls(m), execute |-> TRUE ]
          [] op = 238  -> [ m |-> ret(m), execute |-> TRUE ]
          [] high = 1  -> [ m |-> jmp(m, address), execute |-> TRUE ]
          [] high = 2  -> [ m |-> call(m, address), execute |-> TRUE ]
          [] high = 3  -> [ m |-> se_vx_byte(m, x, op_low), execute |-> TRUE ]
          [] high = 4  -> [ m |-> sne_vx_byte(m, x, op_low), execute |-> TRUE ]
          [] high = 5  -> [ m |-> dispatch_5(m, x, y), execute |-> TRUE ]
          [] high = 6  -> [ m |-> ld_vx_byte(m, x, op_low), execute |-> TRUE ]
          [] high = 7  -> [ m |-> add_vx_byte(m, x, op_low), execute |-> TRUE ]
          [] high = 8  -> dispatch_8(m, x, y, option)
          [] high = 9  -> [ m |-> sne_vx_vy(m, x, y), execute |-> TRUE ]
          [] high = 10 -> [ m |-> ld_i_addr(m, address), execute |-> TRUE ]
          [] high = 11 -> [ m |-> jmp_v0_addr(m, address), execute |-> TRUE ]
          [] high = 12 -> [ m |-> rnd_vx_byte(m, rnd, x, op_low), execute |-> TRUE ]
          [] high = 13 -> [ m |-> draw_vx_vy_nibble(m, x, y, option), execute |-> TRUE ]
          [] high = 14 -> dispatch_E(m, keys, x, op_low)
          [] high = 15 -> dispatch_F(m, keys, x, op_low)
          [] OTHER     -> [ m |-> m, execute |-> FALSE ]

\* Chip::tick with the Random port answering `rnd` and the Keypad holding
\* `keys`: the machine afterwards, the opcode fetched (-1 when the fetch
\* itself panicked) and the value returned.
tick(m, rnd, keys) ==
    LET m0 == [m EXCEPT !.calls = << >>]
    IN  IF ~in_memory(m.ip) \/ ~in_memory(m.ip + 1)
        THEN [ m |-> Panic(m0), execute |-> FALSE, opcode |-> -1 ]
        ELSE LET op == byte_at(m, m.ip) * 256 + byte_at(m, m.ip + 1)
                 d  == dispatch(advance(m0), op, rnd, keys)
             IN  [ m |-> d.m, execute |-> d.execute, opcode |-> op ]

\* ------------------------------------------------------------------- bounds
\* The host calls tick at most once per instruction word of its program
\* plus MaxExtraTicks more times.
MaxExtraTicks == 1

TickBudget == Len(rom) \div 2 + MaxExtraTicks

\* tick_timers calls after an LD DT,Vx are counted up to MaxTimerCalls; the
\* count MaxTimerCalls stands for that many calls or more.
MaxTimerCalls == 4

\* What the Random port may answer and which keys the Keypad may hold.
RandomBytes == {0, 165, 255}
KeypadStates == {{}, {3}, {0, 3, 15}}

\* One instruction word as two bytes, big-endian.
Word(op) == << op \div 256, op % 256 >>

\* ------------------------------------------------------------------ actions
Returned(r) ==
    IF r.m.panic THEN "panic" ELSE IF r.execute THEN "true" ELSE "false"

\* The port answers that matter to the instruction at m.ip: tick calls
\* Random only in the 0xC000 arm and Keypad only in the 0xE000 and 0xF000
\* arms, so every other instruction is run with one (unused) answer.
PortAnswers(m) ==
    LET high == IF in_memory(m.ip) THEN byte_at(m, m.ip) \div 16 ELSE 0
    IN  IF high = 12 THEN RandomBytes \X {{}}
        ELSE IF high \in {14, 15} THEN {0} \X KeypadStates
        ELSE {<< 0, {} >>}

\* The machine after an operation is the machine the operation left.
Becomes(m) ==
    /\ registers' = m.registers
    /\ i' = m.i
    /\ memory' = m.memory
    /\ ip' = m.ip
    /\ stack' = m.stack
    /\ sp' = m.sp
    /\ timers' = m.timers
    /\ pixels' = m.pixels
    /\ calls' = m.calls
    /\ stack_index' = m.stack_index
    /\ panicked' = m.panic

\* The tick that ran the 0xF015 arm (ld_dt_vx) starts a new count.
LoadsDelay(r) ==
    /\ ~r.m.panic
    /\ r.execute
    /\ r.opcode \div 4096 = 15
    /\ r.opcode % 256 = 21

TickSeen(r) ==
    IF LoadsDelay(r)
    THEN /\ delay_loaded' = registers[(r.opcode \div 256) % 16]
         /\ timer_calls' = 0
    ELSE UNCHANGED << delay_loaded, timer_calls >>

TickTimersSeen ==
    /\ timer_calls' = IF delay_loaded # -1 /\ timer_calls < MaxTimerCalls
                      THEN timer_calls + 1 ELSE timer_calls
    /\ UNCHANGED delay_loaded

Tick ==
    /\ ~panicked
    /\ ticks < TickBudget
    /\ \E port \in PortAnswers(Machine) :
        LET r == tick(Machine, port[1], port[2])
        IN  /\ Becomes(r.m)
            /\ returned' = Returned(r)
            /\ opcode' = r.opcode
            /\ TickSeen(r)
    /\ ticks' = ticks + 1
    /\ UNCHANGED << overflow_checks, rom, continuing, host_at >>

TickTimers ==
    /\ ~panicked
    /\ Becomes(tick_timers(Machine))
    /\ TickTimersSeen
    /\ UNCHANGED << overflow_checks, rom, ticks, returned, opcode,
                    continuing, host_at >>

LoadProgram ==
    /\ ~panicked
    /\ Becomes(load_program(Machine, program_code(rom)))
    /\ UNCHANGED << overflow_checks, rom, ticks, returned, opcode,
                    continuing, host_at, delay_loaded, timer_calls >>

\* The state after Chip::default(), with the host holding one of `roms`.
InitWith(roms) ==
    /\ registers = Default.registers
    /\ i = Default.i
    /\ memory = Default.memory
    /\ ip = Default.ip
    /\ stack = Default.stack
    /\ sp = Default.sp
    /\ timers = Default.timers
    /\ pixels = {}
    /\ calls = << >>
    /\ stack_index = -2
    /\ panicked = FALSE
    /\ overflow_checks \in BOOLEAN
    /\ rom \in roms
    /\ ticks = 0
    /\ returned = "none"
    /\ opcode = -1
    /\ continuing = TRUE
    /\ host_at = << "load", 0 >>
    /\ delay_loaded = -1
    /\ timer_calls = 0

Next == Tick \/ TickTimers \/ LoadProgram

\* ---------------------------------------------------------- the chip8run host
\* chip8run's main: Chip8Run::new, load_program, and then the event loop,
\* which while the context is `continuing` calls update (the key handling
\* and TICKS_X_FRAME calls of tick) and then draw (one call of tick_timers).
\* quit(context) clears `continuing`; the loop looks at it only at its head.
TICKS_X_FRAME == 10

\* The host is followed for MaxFrames passes of its event loop.
MaxFrames == 2

HostLoadProgram ==
    /\ ~panicked
    /\ host_at = << "load", 0 >>
    /\ Becomes(load_program(Machine, program_code(rom)))
    /\ host_at' = << "loop", 0 >>
    /\ UNCHANGED << overflow_checks, rom, ticks, returned, opcode, continuing,
                    delay_loaded, timer_calls >>

\* The head of the event loop and the key handling that opens update:
\* Escape calls quit(context), and update goes on to its tick loop.
HostRun ==
    /\ ~panicked
    /\ host_at = << "loop", 0 >>
    /\ IF continuing /\ ticks < MaxFrames * TICKS_X_FRAME
       THEN /\ host_at' = << "update", 0 >>
            /\ \E escape \in BOOLEAN : continuing' = ~escape
       ELSE /\ host_at' = << "exit", 0 >>
            /\ UNCHANGED continuing
    /\ UNCHANGED << chip_vars, pixels, calls, stack_index, panicked,
                    overflow_checks, rom, ticks, returned, opcode,
                    delay_loaded, timer_calls >>

\* One pass of `for _i in 0..TICKS_X_FRAME`: tick, and quit(context) when
\* it returned false.
HostUpdateTick ==
    /\ ~panicked
    /\ host_at[1] = "update"
    /\ \E port \in PortAnswers(Machine) :
        LET r == tick(Machine, port[1], port[2])
        IN  /\ Becomes(r.m)
            /\ returned' = Returned(r)
            /\ opcode' = r.opcode
            /\ TickSeen(r)
            /\ continuing' = (continuing /\ (r.m.panic \/ r.execute))
    /\ ticks' = ticks + 1
    /\ host_at' = IF host_at[2] + 1 < TICKS_X_FRAME
                  THEN << "update", host_at[2] + 1 >>
                  ELSE << "draw", 0 >>
    /\ UNCHANGED << overflow_checks, rom >>

\* Chip8Run::draw: self.chip.tick_timers(), then the screen is presented.
HostDraw ==
    /\ ~panicked
    /\ host_at = << "draw", 0 >>
    /\ Becomes(tick_timers(Machine))
    /\ TickTimersSeen
    /\ host_at' = << "loop", 0 >>
    /\ UNCHANGED << overflow_checks, rom, ticks, returned, opcode, continuing >>

NextHost == HostLoadProgram \/ HostRun \/ HostUpdateTick \/ HostDraw

\* ----------------------------------------------------------------- programs
\* Instruction words by their fields, and a program from its words.
XYN(h, x, y, n) == h * 4096 + x * 256 + y * 16 + n
XKK(h, x, kk) == h * 4096 + x * 256 + kk
NNN(h, nnn) == h * 4096 + nnn

RECURSIVE Assemble(_)
Assemble(ops) ==
    IF ops = << >> THEN << >> ELSE Word(Head(ops)) \o Assemble(Tail(ops))

\* The address of the k-th word (from 0) of a loaded program.
At(k) == PROG_START + 2 * k

\* Two nested calls, each returning:
\*   0x200 CALL 0x206   0x202 JMP 0x202   0x204 0000
\*   0x206 CALL 0x20A   0x208 RET         0x20A RET
CallRom ==
    Assemble(<< NNN(2, At(3)), NNN(1, At(1)), 0,
                NNN(2, At(5)), 238, 238 >>)

\* Calls nested `depth` deep: the main program calls subroutine 1 and then
\* loops on a jump to itself; subroutine k (two words at At(2 * k)) calls
\* subroutine k + 1 and returns; the innermost subroutine only returns.
RECURSIVE Subroutines(_, _)
Subroutines(k, depth) ==
    IF k >= depth THEN << 238, 0 >>
    ELSE << NNN(2, At(2 * (k + 1))), 238 >> \o Subroutines(k + 1, depth)

NestRom(depth) ==
    Assemble(<< NNN(2, At(2)), NNN(1, At(1)) >> \o Subroutines(1, depth))

\* LD V3,K and then a jump to itself.
KeyRom == Assemble(<< XKK(15, 3, 10), NNN(1, At(1)) >>)

\* Sets the delay timer to d and the sound timer to s, then loops on a jump
\* to itself.
TimerRom(d, s) ==
    Assemble(<< XKK(6, 1, d), XKK(15, 1, 21), XKK(6, 2, s), XKK(15, 2, 24),
                NNN(1, At(4)) >>)

TimerValues == {0, 1, 3}

Roms ==
    { CallRom, NestRom(STACK_SIZE), NestRom(STACK_SIZE + 1), KeyRom,
      Assemble(<< 238 >>) }
    \cup { TimerRom(d, s) : d \in TimerValues, s \in TimerValues }

Init == InitWith(Roms)
Spec == Init /\ [][Next]_vars

\* One-instruction programs: every low byte under the high nibbles whose
\* arm matches on it (0, E, F), and every high nibble and low nibble with
\* two values each of the x and y fields.
DecodeOpcodes ==
    { h * 4096 + kk : h \in {0, 14, 15}, kk \in 0..255 }
    \cup { h * 4096 + x * 256 + y * 16 + n :
               h \in 0..15, x \in {0, 10}, y \in {0, 3}, n \in 0..15 }

DecodeRoms == { Word(op) : op \in DecodeOpcodes }

InitDecode == InitWith(DecodeRoms)
SpecDecode == InitDecode /\ [][Next]_vars

\* Register indices for the register-register programs: two plain registers
\* and the flag register, so that x = y, x = FLAG and y = FLAG all occur.
RegIdx == {1, 2, FLAG}

\* LD Vx,a; LD Vy,b; then one instruction on them.
RegRom(x, a, y, b, op) == Assemble(<< XKK(6, x, a), XKK(6, y, b), op >>)

\* The conditional skips, over register values that are held keys (0, 3),
\* and one (200) that is no key at all.
SkipValues == {0, 3, 200}
SkipBytes == {3, 200}

SkipOps(x, y) ==
    { XKK(3, x, kk) : kk \in SkipBytes }
    \cup { XKK(4, x, kk) : kk \in SkipBytes }
    \cup { XYN(5, x, y, 0), XYN(9, x, y, 0), XKK(14, x, 158), XKK(14, x, 161) }

SkipRoms ==
    UNION { { RegRom(x, a, y, b, op) : op \in SkipOps(x, y) } :
                x \in RegIdx, y \in RegIdx, a \in SkipValues, b \in SkipValues }

InitSkip == InitWith(SkipRoms)
SpecSkip == InitSkip /\ [][Next]_vars

\* ADD, SUB and SUBN over register values around the carry and the borrow.
AluValues == {0, 1, 40, 240, 255}

AluRoms ==
    { RegRom(x, a, y, b, XYN(8, x, y, n)) :
          x \in RegIdx, y \in RegIdx, a \in AluValues, b \in AluValues,
          n \in {4, 5, 7} }

InitAlu == InitWith(AluRoms)
SpecAlu == InitAlu /\ [][Next]_vars

\* Programs that store and load registers through I.  V0, V1 and VF are
\* given the MemValues, which no memory byte around the addresses holds; the
\* addresses are the font region, the two bytes below the program (so that
\* the transfer runs into the program itself), a free page above the
\* program's instructions, and the top of memory, where a transfer of more
\* than 8 (or 1) registers runs past the last byte.
MemValues == << 171, 205, 239 >>

MemAddrs == {0, 510, 3840, 4088, 4095}

MemRom(addr, op) ==
    Assemble(<< XKK(6, 0, MemValues[1]), XKK(6, 1, MemValues[2]), XKK(6, FLAG, MemValues[3]),
                NNN(10, addr), op >>)

\* LD [I],Vx; I set back to where it was; LD Vx,[I].
RoundRom(addr, x) ==
    Assemble(<< XKK(6, 0, MemValues[1]), XKK(6, 1, MemValues[2]), XKK(6, FLAG, MemValues[3]),
                NNN(10, addr), XKK(15, x, 85), NNN(10, addr), XKK(15, x, 101) >>)

MemRoms ==
    { MemRom(addr, XKK(15, x, kk)) :
          addr \in MemAddrs, x \in 0..(NUM_RESGISTERS - 1), kk \in {85, 101} }
    \cup { RoundRom(0, x) : x \in {0, 1, FLAG} }

InitMem == InitWith(MemRoms)
SpecMem == InitMem /\ [][Next]_vars

\* Programs that draw the same sprite twice: LD Vx,a; LD Vy,b; LD I,addr;
\* DRW Vx,Vy,n; DRW Vx,Vy,n.  The sprite is the program's own bytes (at
\* 0x200, rows with bits in all eight columns) or the last two bytes of
\* memory (a sprite of more than two rows runs past the top); the
\* coordinates include ones whose row or column passes 63, 31 and 255.
DrawRom(x, a, y, b, addr, n) ==
    Assemble(<< XKK(6, x, a), XKK(6, y, b), NNN(10, addr),
                XYN(13, x, y, n), XYN(13, x, y, n) >>)

DrawRegs == { << 1, 2 >>, << 1, 1 >>, << FLAG, 2 >>, << 1, FLAG >> }
DrawColumns == {0, 60, 255}
DrawRows == {0, 30, 250}
DrawAddrs == {PROG_START, MEM_SIZE - 2}
DrawLines == {0, 1, 5, 15}

DrawRoms ==
    { DrawRom(xy[1], a, xy[2], b, addr, n) :
          xy \in DrawRegs, a \in DrawColumns, b \in DrawRows,
          addr \in DrawAddrs, n \in DrawLines }

InitDraw == InitWith(DrawRoms)
SpecDraw == InitDraw /\ [][Next]_vars

\* LD Vx,v; LD I,addr; LD B,Vx: every byte value v at a free address, and
\* the values around the digit boundaries over the font, over the program
\* itself, from the flag register, and at the last three addresses.
BcdRom(x, v, addr) ==
    Assemble(<< XKK(6, x, v), NNN(10, addr), XKK(15, x, 51) >>)

BcdValues == {0, 9, 10, 99, 100, 199, 255}
BcdAddrs == {0, PROG_START + 2, MEM_SIZE - 3, MEM_SIZE - 2, MEM_SIZE - 1}

BcdRoms ==
    { BcdRom(1, v, 768) : v \in 0..(U8 - 1) }
    \cup { BcdRom(x, v, addr) :
              x \in {1, FLAG}, v \in BcdValues, addr \in BcdAddrs }

InitBcd == InitWith(BcdRoms)
SpecBcd == InitBcd /\ [][Next]_vars

\* LD Vx,v; LD F,Vx for every byte value v.
FontRom(x, v) == Assemble(<< XKK(6, x, v), XKK(15, x, 41) >>)

FontRoms == { FontRom(x, v) : x \in {1, FLAG}, v \in 0..(U8 - 1) }

InitFont == InitWith(FontRoms)
SpecFont == InitFont /\ [][Next]_vars

\* Control transfers to the top of memory and elsewhere: JMP and CALL to
\* an address, and LD V0,v; JMP V0,addr; each followed by a zero word.
JumpAddrs == {0, PROG_START, MEM_SIZE - 4, MEM_SIZE - 2, MEM_SIZE - 1}
JumpOffsets == {0, 1, 2, 255}

JumpRoms ==
    { Assemble(<< NNN(h, a), 0 >>) : h \in {1, 2}, a \in JumpAddrs }
    \cup { Assemble(<< XKK(6, 0, v), NNN(11, a), 0 >>) :
              v \in JumpOffsets, a \in JumpAddrs }

InitJump == InitWith(JumpRoms)
SpecJump == InitJump /\ [][Next]_vars

\* LD Vy,90; LD Vx,k: into every register with its neighbour y = x + 1
\* (mod 16) holding 90, and every byte value into V0 and VF over the 90
\* they held.
LdBytes == {0, 1, 127, 128, 255}

LdRoms ==
    { Assemble(<< XKK(6, (x + 1) % NUM_RESGISTERS, 90), XKK(6, x, k) >>) :
          x \in 0..(NUM_RESGISTERS - 1), k \in LdBytes }
    \cup { Assemble(<< XKK(6, x, 90), XKK(6, x, k) >>) :
              x \in {0, FLAG}, k \in 0..(U8 - 1) }

InitLd == InitWith(LdRoms)
SpecLd == InitLd /\ [][Next]_vars

\* Programs for the host: CLS and then nothing (the second tick fetches
\* 0x0000), a jump to itself (no tick ever returns false), nine loads (the
\* tenth tick of the first frame is the one that fetches 0x0000), an
\* undefined opcode after two loads, and the timers set and left to run.
HostRoms ==
    { Assemble(<< 224 >>),
      Assemble(<< NNN(1, At(0)) >>),
      Assemble([k \in 1..9 |-> XKK(6, k, k)]),
      Assemble(<< XKK(6, 1, 1), XKK(6, 2, 2), XKK(15, 0, 255) >>),
      TimerRom(3, 1) }

InitHost == InitWith(HostRoms)
SpecHost == InitHost /\ [][NextHost]_vars

\* LD Vx,v; SHR Vx or SHL Vx, for every register and values with either,
\* both and neither of the lowest and the highest bit set.
ShiftValues == {0, 1, 2, 128, 129, 254, 255}

ShiftRoms ==
    { Assemble(<< XKK(6, x, v), XYN(8, x, (x + 1) % NUM_RESGISTERS, n) >>) :
          x \in 0..(NUM_RESGISTERS - 1), v \in ShiftValues, n \in {6, 14} }

InitShift == InitWith(ShiftRoms)
SpecShift == InitShift /\ [][Next]_vars

\* LD VF,7; LD Vx,v; ADD Vx,kk: sums below, at and beyond 255 in every
\* register, the flag register holding 7 (or v, when x is the flag).
AddValues == {0, 1, 200, 255}
AddBytes == {0, 1, 56, 255}

AddRoms ==
    { Assemble(<< XKK(6, FLAG, 7), XKK(6, x, v), XKK(7, x, kk) >>) :
          x \in 0..(NUM_RESGISTERS - 1), v \in AddValues, kk \in AddBytes }

InitAdd == InitWith(AddRoms)
SpecAdd == InitAdd /\ [][Next]_vars

\* ADD I,Vx up to the top of the 16-bit range: I is set to 0xFFF and raised
\* by 255 (V0) 240 times to 65295, then by 240 (V1) to 65535 and by 1 (V2)
\* past it.  And LD Vx,v; LD I,addr; ADD I,Vx in the low range.
\* The instruction word op, n times over.
Repeat(op, n) == [k \in 1..(2 * n) |-> Word(op)[IF k % 2 = 1 THEN 1 ELSE 2]]

AddIClimbRom ==
    Assemble(<< XKK(6, 0, 255), XKK(6, 1, 240), XKK(6, 2, 1), NNN(10, 4095) >>)
    \o Repeat(XKK(15, 0, 30), 240)
    \o Assemble(<< XKK(15, 1, 30), XKK(15, 2, 30) >>)

AddIRoms ==
    { AddIClimbRom }
    \cup { Assemble(<< XKK(6, x, v), NNN(10, a), XKK(15, x, 30) >>) :
              x \in {1, FLAG}, v \in {0, 1, 255}, a \in {0, 4095} }

InitAddI == InitWith(AddIRoms)
SpecAddI == InitAddI /\ [][Next]_vars

\* ------------------------------------------------------- reading a tick step
\* The step is a call of tick (only Tick counts ticks).
TickStep == ticks' = ticks + 1

\* The fields of the opcode the step's tick fetched.
OpHigh(op) == op \div 4096
OpX(op) == (op \div 256) % 16
OpY(op) == (op \div 16) % 16
OpN(op) == op % 16
OpKK(op) == op % 256
OpNNN(op) == op % 4096

\* ---------------------------------------------------------------------- C1
\* The instruction encodings of the instruction table.
IsInstruction(op) ==
    \/ op \in {224, 238}
    \/ OpHigh(op) \in {1, 2, 3, 4, 6, 7, 10, 11, 12, 13}
    \/ OpHigh(op) \in {5, 9} /\ OpN(op) = 0
    \/ OpHigh(op) = 8 /\ OpN(op) \in (0..7) \cup {14}
    \/ OpHigh(op) = 14 /\ OpKK(op) \in {158, 161}
    \/ OpHigh(op) = 15 /\ OpKK(op) \in {7, 10, 21, 24, 30, 41, 51, 85, 101}

\* C1: whenever tick returns, it returns true iff the opcode it fetched is
\* one of the instruction encodings of the table, and false for 0x0000 and
\* every other value, 5xyN and 9xyN with N # 0 included.
C1_ReturnsTrueIffInstruction ==
    returned \in {"true", "false"} =>
        (returned = "true" <=> IsInstruction(opcode))

\* ---------------------------------------------------------------------- C2
\* C2: a tick that returns false has advanced the program counter by exactly
\* 2 and changed nothing else: registers, I, memory, call stack, stack
\* pointer, timers and display are as before and no port was called.
C2_FalseOnlyAdvances ==
    [][ (TickStep /\ returned' = "false") =>
            /\ ip' = ip + 2
            /\ UNCHANGED << registers, i, memory, stack, sp, timers, pixels >>
            /\ calls' = << >>
      ]_vars

\* C2 witness: an unrecognized opcode (not the 0x0000 sentinel) was fetched
\* at 0x200 from a loaded program and tick returned false.
C2_Witness ==
    /\ returned = "false"
    /\ opcode > 0
    /\ ip = PROG_START + 2
    /\ memory[PROG_START + 1] * 256 + memory[PROG_START + 2] = opcode

\* ---------------------------------------------------------------------- C3
\* C3: CALL stores the program counter it was dispatched with (the address
\* of the CALL plus 2) in the free slot callStack[stackPointer], increments
\* stackPointer and jumps to nnn; RET decrements stackPointer and jumps to
\* the address in the top frame; no other step touches the call stack or
\* the stack pointer.  So the frames below the top are kept while a call is
\* pending and every RET returns to the address its matching CALL stored.
C3_CallRetLifo ==
    [][ IF TickStep /\ returned' = "true" /\ OpHigh(opcode') = 2
        THEN /\ stack' = [stack EXCEPT ![sp] = ip + 2]
             /\ sp' = sp + 1
             /\ ip' = OpNNN(opcode')
        ELSE IF TickStep /\ returned' = "true" /\ opcode' = 238
        THEN /\ sp' = sp - 1
             /\ ip' = stack[sp - 1]
             /\ stack' = stack
        ELSE panicked' \/ UNCHANGED << stack, sp >>
      ]_vars

\* C3 witness: sixteen nested calls have all returned: the last RET took the
\* machine back to the word after the first CALL with the stack empty, and
\* the deepest frame still holds the return address of the sixteenth CALL.
C3_Witness ==
    /\ rom = NestRom(STACK_SIZE)
    /\ returned = "true"
    /\ opcode = 238
    /\ sp = 0
    /\ ip = At(1)
    /\ stack[STACK_SIZE - 1] = At(2 * STACK_SIZE - 1)

\* ---------------------------------------------------------------------- C4
\* C4: in every reachable state 0 <= stackPointer <= 16 and every call-stack
\* access uses an index in 0..15, a CALL at depth 16 and a RET at depth 0
\* included.
C4_StackInRange ==
    /\ sp \in 0..STACK_SIZE
    /\ stack_index \in {-2} \cup (0..(STACK_SIZE - 1))

\* ---------------------------------------------------------------------- C5
\* C5: LD Vx,K returns true; when Input.pressedKey() answers no key the
\* whole machine state after the tick equals the state before it (so the
\* next tick fetches the same instruction); when it answers key k,
\* registers[x] = k, the program counter is 2 past the instruction and
\* nothing else changes.
C5_KeyWaitFixedPoint ==
    [][ (TickStep /\ ~panicked' /\ OpHigh(opcode') = 15 /\ OpKK(opcode') = 10) =>
            /\ returned' = "true"
            /\ Len(calls') = 1
            /\ calls'[1][1] = "pressed_key"
            /\ IF calls'[1][4] = -1
               THEN UNCHANGED << registers, i, memory, ip, stack, sp, timers,
                                 pixels >>
               ELSE /\ registers' = [registers EXCEPT ![OpX(opcode')] = calls'[1][4]]
                    /\ ip' = ip + 2
                    /\ UNCHANGED << i, memory, stack, sp, timers, pixels >>
      ]_vars

\* C5 witness: LD V3,K at 0x200 has been ticked twice without a key and the
\* program counter is still at the instruction.
C5_Witness ==
    /\ rom = KeyRom
    /\ ticks = 2
    /\ returned = "true"
    /\ opcode = XKK(15, 3, 10)
    /\ calls = << << "pressed_key", 0, 0, -1 >> >>
    /\ ip = At(0)

\* ---------------------------------------------------------------------- C6
\* C6: SE Vx,Vy (5xy0) leaves the program counter 4 past the instruction
\* iff registers[x] = registers[y], and 2 past it otherwise.
C6_SeVxVySkipsOnEqual ==
    [][ (TickStep /\ ~panicked' /\ OpHigh(opcode') = 5 /\ OpN(opcode') = 0) =>
            ip' = ip + (IF registers[OpX(opcode')] = registers[OpY(opcode')]
                        THEN 4 ELSE 2)
      ]_vars

\* ---------------------------------------------------------------------- C7
\* The program counter ends 4 past the instruction iff `condition`, 2 past
\* it otherwise, and nothing else of the machine changes.
SkipsIff(condition) ==
    /\ ip' = ip + (IF condition THEN 4 ELSE 2)
    /\ UNCHANGED << registers, i, memory, stack, sp, timers, pixels >>

\* The tick asked Input.isPressed exactly once, about the key in Vx.
AskedKey(x) ==
    /\ Len(calls') = 1
    /\ calls'[1][1] = "is_pressed"
    /\ calls'[1][2] = registers[x]

\* C7: each conditional skip leaves the program counter at the instruction's
\* address + 4 iff its condition holds and at + 2 otherwise, with no other
\* state change: 3xkk iff Vx = kk, 4xkk iff Vx # kk, 9xy0 iff Vx # Vy,
\* Ex9E iff Input.isPressed(Vx), ExA1 iff not Input.isPressed(Vx).
C7_ConditionalSkips ==
    [][ (TickStep /\ ~panicked') =>
          LET x == OpX(opcode')
              y == OpY(opcode')
              kk == OpKK(opcode')
          IN  /\ OpHigh(opcode') = 3 => SkipsIff(registers[x] = kk)
              /\ OpHigh(opcode') = 4 => SkipsIff(registers[x] # kk)
              /\ (OpHigh(opcode') = 9 /\ OpN(opcode') = 0) =>
                     SkipsIff(registers[x] # registers[y])
              /\ (OpHigh(opcode') = 14 /\ kk = 158) =>
                     AskedKey(x) /\ SkipsIff(calls'[1][4] = 1)
              /\ (OpHigh(opcode') = 14 /\ kk = 161) =>
                     AskedKey(x) /\ SkipsIff(calls'[1][4] = 0)
      ]_vars

\* C7 witness: SKNP V1 with V1 = 3 while key 3 is held: the third tick asked
\* the keypad, was answered "pressed" and did not skip.
C7_Witness ==
    /\ ticks = 3
    /\ opcode = XKK(14, 1, 161)
    /\ registers[1] = 3
    /\ calls = << << "is_pressed", 3, 0, 1 >> >>
    /\ ip = At(3)

\* ---------------------------------------------------------------------- C8
\* C8 as stated: for all x and y, x = 15 included, ADD Vx,Vy sets the flag
\* register to 1 iff the sum of the two pre-instruction values exceeds 255
\* (else 0) and registers[x] to that sum modulo 256.
C8_AddAsStated ==
    [][ (TickStep /\ ~panicked' /\ OpHigh(opcode') = 8 /\ OpN(opcode') = 4) =>
          LET sum == registers[OpX(opcode')] + registers[OpY(opcode')]
          IN  /\ registers'[FLAG] = (IF sum > 255 THEN 1 ELSE 0)
              /\ registers'[OpX(opcode')] = sum % 256
      ]_vars

\* C8 amended: for all x and y, ADD Vx,Vy sets the flag register to 1 iff
\* the sum of the two pre-instruction values exceeds 255 (else 0), and for
\* x # 15 registers[x] to that sum modulo 256 (with x = 15 the register is
\* the flag register and holds the carry).
C8_AddCarry ==
    [][ (TickStep /\ ~panicked' /\ OpHigh(opcode') = 8 /\ OpN(opcode') = 4) =>
          LET sum == registers[OpX(opcode')] + registers[OpY(opcode')]
          IN  /\ registers'[FLAG] = (IF sum > 255 THEN 1 ELSE 0)
              /\ OpX(opcode') # FLAG => registers'[OpX(opcode')] = sum % 256
      ]_vars

\* C8 witness: V1 = 240 and V2 = 40 were added into V1: 24 with the carry.
C8_Witness ==
    /\ rom = RegRom(1, 240, 2, 40, XYN(8, 1, 2, 4))
    /\ opcode = XYN(8, 1, 2, 4)
    /\ registers[1] = 24
    /\ registers[2] = 40
    /\ registers[FLAG] = 1

\* ---------------------------------------------------------------------- C9
\* C9: for all x and y, SUB Vx,Vy sets the flag register to 1 iff the
\* pre-instruction Vx >= Vy (else 0) and SUBN Vx,Vy to 1 iff Vy >= Vx
\* (else 0); for x # 15 registers[x] becomes (Vx - Vy) mod 256 for SUB and
\* (Vy - Vx) mod 256 for SUBN.
C9_SubBorrow ==
    [][ (TickStep /\ ~panicked' /\ OpHigh(opcode') = 8) =>
          LET x == OpX(opcode')
              vx == registers[OpX(opcode')]
              vy == registers[OpY(opcode')]
          IN  /\ OpN(opcode') = 5 =>
                    /\ registers'[FLAG] = (IF vx >= vy THEN 1 ELSE 0)
                    /\ x # FLAG => registers'[x] = (vx - vy) % 256
              /\ OpN(opcode') = 7 =>
                    /\ registers'[FLAG] = (IF vy >= vx THEN 1 ELSE 0)
                    /\ x # FLAG => registers'[x] = (vy - vx) % 256
      ]_vars

\* C9 witness: SUBN V1,V2 with V1 = 240 and V2 = 40 borrowed: V1 holds
\* (40 - 240) mod 256 = 56 and the flag is 0.
C9_Witness ==
    /\ rom = RegRom(1, 240, 2, 40, XYN(8, 1, 2, 7))
    /\ opcode = XYN(8, 1, 2, 7)
    /\ registers[1] = 56
    /\ registers[2] = 40
    /\ registers[FLAG] = 0

\* --------------------------------------------------------------------- C10
\* C10: tickTimers lowers each timer by 1 if it is above 0 and leaves it at
\* 0 otherwise (never wrapping to 255), each independently of the other;
\* registers, I, memory, program counter, call stack and stack pointer are
\* unchanged and no port is called.
C10_TickTimersEffect ==
    [][ TickTimers =>
            /\ timers'[DELAY_TIMER] =
                  IF timers[DELAY_TIMER] > 0 THEN timers[DELAY_TIMER] - 1 ELSE 0
            /\ timers'[SOUND_TIMER] =
                  IF timers[SOUND_TIMER] > 0 THEN timers[SOUND_TIMER] - 1 ELSE 0
            /\ UNCHANGED << registers, i, memory, ip, stack, sp, pixels, calls >>
      ]_vars

\* C10 witness: from delay 1 and sound 3, two calls later the delay timer
\* has stayed at 0 through a call while the sound timer went on down.
C10_Witness ==
    /\ rom = TimerRom(1, 3)
    /\ timers[DELAY_TIMER] = 0
    /\ timers[SOUND_TIMER] = 1

\* --------------------------------------------------------------------- C11
\* C11: over any interleaving of tick, tickTimers and loadProgram calls the
\* delay timer's value rises from one state to the next only in a tick that
\* executes LD DT,Vx (Fx15) and the sound timer's only in a tick that
\* executes LD ST,Vx (Fx18); every other step leaves each timer equal or
\* smaller.
C11_TimersRiseOnlyOnLoad ==
    [][ /\ timers'[DELAY_TIMER] > timers[DELAY_TIMER] =>
              /\ TickStep
              /\ returned' = "true"
              /\ OpHigh(opcode') = 15 /\ OpKK(opcode') = 21
        /\ timers'[SOUND_TIMER] > timers[SOUND_TIMER] =>
              /\ TickStep
              /\ returned' = "true"
              /\ OpHigh(opcode') = 15 /\ OpKK(opcode') = 24
      ]_vars

\* C11 witness: LD ST,V2 has just raised the sound timer from 0 to 3 after
\* LD DT,V1 raised the delay timer to 1 and a tickTimers call took the delay
\* timer back down.
C11_Witness ==
    /\ rom = TimerRom(1, 3)
    /\ opcode = XKK(15, 2, 24)
    /\ returned = "true"
    /\ timers[DELAY_TIMER] = 0
    /\ timers[SOUND_TIMER] = 3

\* --------------------------------------------------------------------- C12
\* Glyph d of the font table, five bytes.
Glyph(d) == SubSeq(FontSet, CHARACTER_SIZE * d + 1, CHARACTER_SIZE * d + CHARACTER_SIZE)

\* C12: after loadProgram(program), glyph d of the font table is at
\* memory[5 * d .. 5 * d + 4] for each of the 16 glyphs, so that memory[0..80)
\* is the font table byte for byte, and memory[0x200 + k] = program[k] for
\* every index k of the supplied program.
C12_LoadProgramImage ==
    [][ LoadProgram =>
          LET program == program_code(rom)
          IN  /\ \A d \in 0..(CHARACTERS - 1) :
                    SubSeq(memory', CHARACTER_SIZE * d + 1,
                           CHARACTER_SIZE * d + CHARACTER_SIZE) = Glyph(d)
              /\ CHARACTERS * CHARACTER_SIZE = 80
              /\ \A k \in 0..(Len(program) - 1) :
                    memory'[PROG_START + k + 1] = program[k + 1]
      ]_vars

\* C12 witness: the program stored V0 over the first font byte (leaving
\* I = 1) and loadProgram was called again afterwards: the font byte and the
\* program are in place.
C12_Witness ==
    /\ rom = MemRom(0, XKK(15, 0, 85))
    /\ opcode = XKK(15, 0, 85)
    /\ returned = "true"
    /\ i = 1
    /\ memory[1] = FontSet[1]
    /\ SubSeq(memory, PROG_START + 1, PROG_START + Len(rom)) = rom

\* --------------------------------------------------------------------- C13
\* The addresses loadProgram may write: the font region and the
\* PROG_END - PROG_START bytes from PROG_START.
LoadedRegion ==
    (0..(CHARACTERS * CHARACTER_SIZE - 1)) \cup (PROG_START..(PROG_END - 1))

\* C13: loadProgram, in any reachable state, changes only memory[0..80) and
\* the PROG_END - PROG_START bytes from 0x200: registers, I, program
\* counter, call stack, stack pointer, timers and every other memory byte
\* (0x050..0x1FF and from 0x200 + program length to 0xFFF) are unchanged.
C13_LoadProgramFrame ==
    [][ LoadProgram =>
          /\ UNCHANGED << registers, i, ip, stack, sp, timers >>
          /\ Len(memory') = MEM_SIZE
          /\ PROG_START + Len(program_code(rom)) = PROG_END
          /\ \A a \in (0..(MEM_SIZE - 1)) \ LoadedRegion :
                memory'[a + 1] = memory[a + 1]
      ]_vars

\* C13 witness: the program stored V0..VF at 0x1FE..0x20D, over its own
\* first instructions, and loadProgram was called again: the two bytes
\* below 0x200 still hold V0 and V1, the program is whole again, and the
\* registers, I and the program counter are where the ticks left them.
C13_Witness ==
    /\ rom = MemRom(510, XKK(15, FLAG, 85))
    /\ opcode = XKK(15, FLAG, 85)
    /\ memory[510 + 1] = MemValues[1]
    /\ memory[511 + 1] = MemValues[2]
    /\ SubSeq(memory, PROG_START + 1, PROG_START + Len(rom)) = rom
    /\ registers[0] = MemValues[1]
    /\ i = 510 + NUM_RESGISTERS
    /\ ip = At(5)

\* --------------------------------------------------------------------- C14
\* The 1-bits of the n sprite rows at memory[I..I+n), as << row, position
\* from the most significant bit >>.
SpriteBits(n) ==
    { rb \in (0..(n - 1)) \X (0..7) :
          (memory[i + rb[1] + 1] \div (2 ^ (7 - rb[2]))) % 2 = 1 }

\* The Display.draw calls of the step's tick at coordinate xy.
DrawCallsAt(xy) ==
    { k \in 1..Len(calls') : << calls'[k][2], calls'[k][3] >> = xy }

\* C14: DRW Vx,Vy,n whose rows memory[I..I+n) are inside the memory calls
\* Display.draw exactly once for each 1-bit of the rows and makes no other
\* port call: the bit at position b from the most significant bit of row r
\* is drawn at ((Vx + b) mod 64, (Vy + r) mod 32) with the pre-instruction
\* Vx and Vy; afterwards registers[FLAG] is 1 iff at least one call
\* returned true and 0 otherwise (n = 0: no call, flag 0); I and memory are
\* unchanged.
C14_DrawCalls ==
    [][ (TickStep /\ OpHigh(opcode') = 13 /\ i + OpN(opcode') <= MEM_SIZE) =>
          LET vx == registers[OpX(opcode')]
              vy == registers[OpY(opcode')]
              bits == SpriteBits(OpN(opcode'))
          IN  /\ returned' = "true"
              /\ Len(calls') = Cardinality(bits)
              /\ \A k \in 1..Len(calls') : calls'[k][1] = "draw"
              /\ \A rb \in bits :
                    Cardinality(DrawCallsAt(<< (vx + rb[2]) % SCREEN_WIDTH,
                                               (vy + rb[1]) % SCREEN_HEIGHT >>)) = 1
              /\ registers'[FLAG] =
                    (IF \E k \in 1..Len(calls') : calls'[k][4] = 1 THEN 1 ELSE 0)
              /\ i' = i
              /\ memory' = memory
      ]_vars

\* C14 witness: the second DRW V1,V2,5 of the program's own first five
\* bytes at V1 = 60, V2 = 30 (columns pass 63, rows pass 31): bit 6 of row 3
\* (the byte 30) was drawn at (2, 1) onto the pixel the first DRW lit, the
\* flag is 1 and the display is blank again.
C14_Witness ==
    /\ rom = DrawRom(1, 60, 2, 30, PROG_START, 5)
    /\ ticks = 5
    /\ opcode = XYN(13, 1, 2, 5)
    /\ \E k \in 1..Len(calls) : calls[k] = << "draw", 2, 1, 1 >>
    /\ registers[FLAG] = 1
    /\ pixels = {}

\* --------------------------------------------------------------------- C15
\* C15: LD B,Vx with registers[x] = v and I..I+2 inside the memory writes
\* memory[I] = v div 100, memory[I+1] = (v div 10) mod 10 and
\* memory[I+2] = v mod 10, so that 100 * memory[I] + 10 * memory[I+1] +
\* memory[I+2] = v with each digit in 0..9, and leaves I, the registers and
\* every other memory byte unchanged.
C15_BcdDigits ==
    [][ (TickStep /\ OpHigh(opcode') = 15 /\ OpKK(opcode') = 51
                  /\ i + 2 < MEM_SIZE) =>
          LET v == registers[OpX(opcode')]
          IN  /\ returned' = "true"
              /\ memory'[i + 1] = v \div 100
              /\ memory'[i + 2] = (v \div 10) % 10
              /\ memory'[i + 3] = v % 10
              /\ 100 * memory'[i + 1] + 10 * memory'[i + 2] + memory'[i + 3] = v
              /\ \A k \in 1..3 : memory'[i + k] \in 0..9
              /\ \A a \in (1..MEM_SIZE) \ ((i + 1)..(i + 3)) :
                    memory'[a] = memory[a]
              /\ UNCHANGED << i, registers >>
      ]_vars

\* C15 witness: LD B,V1 with V1 = 199 wrote 1, 9, 9 over the program's
\* second instruction.
C15_Witness ==
    /\ rom = BcdRom(1, 199, PROG_START + 2)
    /\ opcode = XKK(15, 1, 51)
    /\ returned = "true"
    /\ i = PROG_START + 2
    /\ SubSeq(memory, PROG_START + 3, PROG_START + 5) = << 1, 9, 9 >>

\* --------------------------------------------------------------------- C16
\* C16: LD [I],Vx, for every x in 0..15 and I0..I0+x inside the memory
\* (I0 the pre-instruction I), writes memory[I0 + r] = registers[r] for
\* every r in 0..x and then sets I = I0 + x + 1; the registers and every
\* memory byte outside I0..I0+x are unchanged.
C16_StoreRegisters ==
    [][ (TickStep /\ OpHigh(opcode') = 15 /\ OpKK(opcode') = 85
                  /\ i + OpX(opcode') < MEM_SIZE) =>
          LET x == OpX(opcode')
          IN  /\ returned' = "true"
              /\ \A r \in 0..x : memory'[i + r + 1] = registers[r]
              /\ i' = i + x + 1
              /\ registers' = registers
              /\ \A a \in (1..MEM_SIZE) \ ((i + 1)..(i + x + 1)) :
                    memory'[a] = memory[a]
      ]_vars

\* C16 witness: LD [I],VF at I = 0 wrote the sixteen registers over the
\* font's first sixteen bytes, left the seventeenth, and I is 16.
C16_Witness ==
    /\ rom = MemRom(0, XKK(15, FLAG, 85))
    /\ opcode = XKK(15, FLAG, 85)
    /\ returned = "true"
    /\ SubSeq(memory, 1, 3) = << MemValues[1], MemValues[2], 0 >>
    /\ memory[FLAG + 1] = MemValues[3]
    /\ memory[FLAG + 2] = FontSet[FLAG + 2]
    /\ i = NUM_RESGISTERS

\* --------------------------------------------------------------------- C17
\* C17: LD Vx,[I], for every x in 0..15 and I0..I0+x inside the memory,
\* sets registers[r] = memory[I0 + r] for every r in 0..x and then
\* I = I0 + x + 1; the registers above x and all memory are unchanged.
\* Consequently, after a LD [I],Vx, setting I back to I0 and executing
\* LD Vx,[I] leaves registers 0..x with the values they had before the
\* LD [I],Vx.
C17_LoadRegisters ==
    [][ (TickStep /\ OpHigh(opcode') = 15 /\ i + OpX(opcode') < MEM_SIZE) =>
          LET x == OpX(opcode')
          IN  /\ OpKK(opcode') = 101 =>
                    /\ returned' = "true"
                    /\ \A r \in 0..x : registers'[r] = memory[i + r + 1]
                    /\ i' = i + x + 1
                    /\ \A r \in (x + 1)..(NUM_RESGISTERS - 1) :
                          registers'[r] = registers[r]
                    /\ memory' = memory
              /\ OpKK(opcode') = 85 =>
                    LET back == ld_vx_vi([Machine' EXCEPT !.i = i], x)
                    IN  /\ ~back.panic
                        /\ \A r \in 0..x : back.registers[r] = registers[r]
      ]_vars

\* C17 witness: LD V1,[I] at I = 0 loaded the first two font bytes into V0
\* and V1, left VF, and I is 2.
C17_Witness ==
    /\ rom = MemRom(0, XKK(15, 1, 101))
    /\ opcode = XKK(15, 1, 101)
    /\ returned = "true"
    /\ registers[0] = FontSet[1]
    /\ registers[1] = FontSet[2]
    /\ registers[FLAG] = MemValues[3]
    /\ i = 2
    /\ SubSeq(memory, 1, 2) = SubSeq(FontSet, 1, 2)

\* --------------------------------------------------------------------- C18
\* C18: for every value v of registers[x] in 0..255, LD F,Vx sets I = v * 5;
\* for v in 0..15, after loadProgram, the five bytes at I are glyph v of the
\* font table.
C18_FontAddress ==
    [][ (TickStep /\ OpHigh(opcode') = 15 /\ OpKK(opcode') = 41) =>
          LET v == registers[OpX(opcode')]
          IN  /\ returned' = "true"
              /\ i' = v * CHARACTER_SIZE
              /\ v \in 0..(CHARACTERS - 1) =>
                    SubSeq(memory', i' + 1, i' + CHARACTER_SIZE) = Glyph(v)
      ]_vars

\* --------------------------------------------------------------------- C19
\* C19: whenever tick fetches, the program counter is within 0x000..0xFFE,
\* so that memory[programCounter] and memory[programCounter + 1] are both
\* inside the 4096-byte memory: after JMP nnn, CALL nnn, JMP V0,addr, RET,
\* skips and sequential fall-through at the top of memory.
C19_FetchInsideMemory ==
    [][ TickStep =>
          /\ ip \in 0..(MEM_SIZE - 2)
          /\ in_memory(ip) /\ in_memory(ip + 1)
          /\ ~(panicked' /\ opcode' = -1)
      ]_vars

\* --------------------------------------------------------------------- C20
\* The tick of the step executed an instruction that reads or writes
\* memory through I, and the offsets from I it uses.
IndexedAccess ==
    \/ OpHigh(opcode') = 13
    \/ OpHigh(opcode') = 15 /\ OpKK(opcode') \in {51, 85, 101}

IndexedOffsets ==
    IF OpHigh(opcode') = 13 THEN 0..(OpN(opcode') - 1)
    ELSE IF OpKK(opcode') = 51 THEN 0..2
    ELSE 0..OpX(opcode')

\* C20: tick never aborts on an I-relative access: the accesses of DRW
\* (memory[I + row]), LD B,Vx (memory[I..I+2]), LD [I],Vx and LD Vx,[I]
\* (memory[I..I+x]) either all stay within 0x000..0xFFF, with I + offset
\* within 16 bits, and the tick returns, or the tick returns false; it
\* never ends in an index-out-of-range or arithmetic-overflow panic.
C20_IndexedAccessNeverAborts ==
    [][ (TickStep /\ opcode' # -1 /\ IndexedAccess) =>
          /\ returned' # "panic"
          /\ (\E offset \in IndexedOffsets : ~in_memory(i + offset)) =>
                returned' = "false"
      ]_vars

\* --------------------------------------------------------------------- C21
\* C21: for all x in 0..15 and all k in 0..255, after LD Vx,byte (6xkk)
\* executed by tick, registers[x] = k, every other register is unchanged
\* and the program counter is 2 past the instruction.
C21_LoadByte ==
    [][ (TickStep /\ OpHigh(opcode') = 6) =>
          /\ returned' = "true"
          /\ registers'[OpX(opcode')] = OpKK(opcode')
          /\ \A r \in 0..(NUM_RESGISTERS - 1) :
                r # OpX(opcode') => registers'[r] = registers[r]
          /\ ip' = ip + 2
      ]_vars

\* C21 witness: LD V3,128 after LD V4,90: V3 holds 128, V4 still 90.
C21_Witness ==
    /\ rom = Assemble(<< XKK(6, 4, 90), XKK(6, 3, 128) >>)
    /\ opcode = XKK(6, 3, 128)
    /\ returned = "true"
    /\ registers[3] = 128
    /\ registers[4] = 90
    /\ ip = At(2)

\* --------------------------------------------------------------------- C22
\* C22: in the chip8run host loop (update: 10 tick calls per frame), once a
\* tick call has returned false the host never calls tick on the machine
\* again; in particular the call after one that returned false is never
\* made.
C22_NoTickAfterFalse ==
    [][ returned = "false" => ~TickStep ]_vars

\* --------------------------------------------------------------------- C23
\* C23: for every x in 0..15, x = 15 included, and every value v of
\* registers[x], after SHR Vx (8xy6) registers[FLAG] is the evicted low bit
\* v mod 2 and after SHL Vx (8xyE) it is the evicted high bit v div 128;
\* for x # 15 registers[x] becomes v div 2 for SHR and (2 * v) mod 256 for
\* SHL.
C23_ShiftFlags ==
    [][ (TickStep /\ OpHigh(opcode') = 8 /\ OpN(opcode') \in {6, 14}) =>
          LET x == OpX(opcode')
              v == registers[OpX(opcode')]
          IN  /\ returned' = "true"
              /\ OpN(opcode') = 6 =>
                    /\ registers'[FLAG] = v % 2
                    /\ x # FLAG => registers'[x] = v \div 2
              /\ OpN(opcode') = 14 =>
                    /\ registers'[FLAG] = v \div 128
                    /\ x # FLAG => registers'[x] = (2 * v) % 256
      ]_vars

\* --------------------------------------------------------------------- C24
\* C24: for every x in 0..15, every register value v and every kk in
\* 0..255, ADD Vx,byte (7xkk) sets registers[x] = (v + kk) mod 256 without
\* aborting on the wrap and changes no other register; for x # 15 the flag
\* register is left as it was even when the sum exceeds 255.
C24_AddByteWraps ==
    [][ (TickStep /\ OpHigh(opcode') = 7) =>
          LET x == OpX(opcode')
          IN  /\ returned' = "true"
              /\ registers'[x] = (registers[x] + OpKK(opcode')) % 256
              /\ \A r \in 0..(NUM_RESGISTERS - 1) :
                    r # x => registers'[r] = registers[r]
              /\ x # FLAG => registers'[FLAG] = registers[FLAG]
      ]_vars

\* C24 witness: ADD V3,56 with V3 = 200 wrapped to 0 and the flag register
\* still holds the 7 it was loaded with.
C24_Witness ==
    /\ rom = Assemble(<< XKK(6, FLAG, 7), XKK(6, 3, 200), XKK(7, 3, 56) >>)
    /\ opcode = XKK(7, 3, 56)
    /\ returned = "true"
    /\ registers[3] = 0
    /\ registers[FLAG] = 7

\* --------------------------------------------------------------------- C25
\* C25: for every 16-bit value of I reachable by repeated ADD I,Vx and
\* every register value v, ADD I,Vx (Fx1E) sets I = (I + v) mod 65536,
\* leaves all registers, the flag included, unchanged, and tick returns
\* true without aborting.
C25_AddIWraps ==
    [][ (TickStep /\ opcode' # -1 /\ OpHigh(opcode') = 15 /\ OpKK(opcode') = 30) =>
          /\ returned' = "true"
          /\ i' = (i + registers[OpX(opcode')]) % 65536
          /\ registers' = registers
      ]_vars

\* --------------------------------------------------------------------- C26
\* C26: every call tick makes to Display.draw passes x in 0..63 and y in
\* 0..31, for all register values Vx, Vy in 0..255 and all sprite heights,
\* so that the host's pixel index y * 64 + x is within the 2048-pixel grid.
C26_DrawInsideScreen ==
    \A k \in 1..Len(calls) :
        calls[k][1] = "draw" =>
            /\ calls[k][2] \in 0..(SCREEN_WIDTH - 1)
            /\ calls[k][3] \in 0..(SCREEN_HEIGHT - 1)
            /\ calls[k][3] * SCREEN_WIDTH + calls[k][2]
                   \in 0..(SCREEN_WIDTH * SCREEN_HEIGHT - 1)

\* C26 witness: DRW V1,V2,15 at V1 = 255, V2 = 250: row 1 (the byte 255)
\* was drawn from column 63 on round to column 0 in row 27, and row 6, for
\* which Vy + row passes 255, in row 0.
C26_Witness ==
    /\ rom = DrawRom(1, 255, 2, 250, PROG_START, 15)
    /\ ticks = 4
    /\ opcode = XYN(13, 1, 2, 15)
    /\ \E k \in 1..Len(calls) : calls[k] = << "draw", 63, 27, 0 >>
    /\ \E k \in 1..Len(calls) : calls[k] = << "draw", 0, 27, 0 >>
    /\ \E k \in 1..Len(calls) : calls[k] = << "draw", 63, 0, 0 >>

\* --------------------------------------------------------------------- C27
\* C27: every call tick makes to Input.isPressed (from SKP Vx and SKNP Vx)
\* passes a keycode in 0..15, so that the host keypad's 16-entry key table
\* is never indexed out of range.
C27_KeycodeInRange ==
    \A k \in 1..Len(calls) :
        calls[k][1] = "is_pressed" =>
            /\ calls[k][2] \in 0..(KEYPAD_NUM_KEYS - 1)
            /\ in_keys(calls[k][2])
            /\ ~panicked

\* --------------------------------------------------------------------- C28
\* The machine after the DRW of the step is executed once more, on the
\* state the step left.
DrawnAgain ==
    draw_vx_vy_nibble([Machine' EXCEPT !.calls = << >>],
                      OpX(opcode'), OpY(opcode'), OpN(opcode'))

\* The step is a DRW Vx,Vy,n that returned and left its own Vx and Vy as
\* they were (I and the sprite bytes it never changes).
FirstDraw ==
    /\ TickStep /\ returned' = "true" /\ OpHigh(opcode') = 13
    /\ registers'[OpX(opcode')] = registers[OpX(opcode')]
    /\ registers'[OpY(opcode')] = registers[OpY(opcode')]

\* The pixel the sprite's bit rb is drawn on.
SpritePixel(rb) ==
    << (registers[OpX(opcode')] + rb[2]) % SCREEN_WIDTH,
       (registers[OpY(opcode')] + rb[1]) % SCREEN_HEIGHT >>

\* C28 as stated: with the XOR-blit display, a DRW Vx,Vy,n executed twice
\* in a row with unchanged Vx, Vy, I and sprite bytes restores the display
\* to its state before the first, also when the sprite wraps around the
\* grid's edges, and the second DRW sets registers[FLAG] = 1 iff the sprite
\* has at least one 1-bit.
C28_DrawTwiceAsStated ==
    [][ FirstDraw =>
            /\ ~DrawnAgain.panic
            /\ DrawnAgain.pixels = pixels
            /\ DrawnAgain.registers[FLAG] =
                  (IF SpriteBits(OpN(opcode')) # {} THEN 1 ELSE 0)
      ]_vars

\* C28 amended: with the XOR-blit display, a DRW Vx,Vy,n executed twice in
\* a row with unchanged Vx, Vy, I and sprite bytes restores the display to
\* its state before the first, also when the sprite wraps around the
\* grid's edges, and the second DRW sets registers[FLAG] = 1 iff at least
\* one 1-bit of the sprite falls on a pixel that was off before the first
\* DRW (on a display blank there: iff the sprite has at least one 1-bit).
C28_DrawTwiceRestores ==
    [][ FirstDraw =>
            /\ ~DrawnAgain.panic
            /\ DrawnAgain.pixels = pixels
            /\ Len(DrawnAgain.calls) = Len(calls')
            /\ DrawnAgain.registers[FLAG] =
                  (IF \E rb \in SpriteBits(OpN(opcode')) :
                          SpritePixel(rb) \notin pixels
                   THEN 1 ELSE 0)
            /\ pixels = {} =>
                  DrawnAgain.registers[FLAG] =
                      (IF SpriteBits(OpN(opcode')) # {} THEN 1 ELSE 0)
      ]_vars

\* C28 witness: the second DRW V1,V2,15 at V1 = 255, V2 = 250 (the sprite
\* wraps round both edges) has been executed: every call of it found its
\* pixel lit, the flag is 1 and the display is blank as before the first.
C28_Witness ==
    /\ rom = DrawRom(1, 255, 2, 250, PROG_START, 15)
    /\ ticks = 5
    /\ opcode = XYN(13, 1, 2, 15)
    /\ returned = "true"
    /\ Len(calls) > 8
    /\ \A k \in 1..Len(calls) : calls[k][4] = 1
    /\ registers[FLAG] = 1
    /\ pixels = {}

\* --------------------------------------------------------------------- C29
\* memory[0..80) is the font table.
FontIntact == SubSeq(memory, 1, CHARACTERS * CHARACTER_SIZE) = FontSet

\* C29: once loadProgram has put the font table at memory[0..80), no tick
\* and no tickTimers call changes it: no instruction (LD B,Vx, LD [I],Vx or
\* any other) overwrites the font region.
C29_FontNeverOverwritten ==
    [][ FontIntact => FontIntact' ]_vars

\* --------------------------------------------------------------------- C30
\* The instruction at the program counter is LD Vx,K (Fx0A).
AwaitsKey(x) ==
    /\ ~panicked
    /\ in_memory(ip) /\ in_memory(ip + 1)
    /\ byte_at(Machine, ip) = 15 * 16 + x
    /\ byte_at(Machine, ip + 1) = 10

\* The last tick asked Keypad::pressed_key and was answered Some(key).
KeyAnswered ==
    /\ Len(calls) = 1
    /\ calls[1][1] = "pressed_key"
    /\ calls[1][4] # -1

\* The host keeps calling tick while the machine is at LD Vx,K, however
\* many ticks that takes; everywhere else it calls tick within TickBudget.
KeyWaitTick ==
    /\ ~panicked
    /\ ticks < TickBudget \/ \E x \in 0..FLAG : AwaitsKey(x)
    /\ \E port \in PortAnswers(Machine) :
        LET r == tick(Machine, port[1], port[2])
        IN  /\ Becomes(r.m)
            /\ returned' = Returned(r)
            /\ opcode' = r.opcode
            /\ TickSeen(r)
    /\ ticks' = IF ticks < TickBudget THEN ticks + 1 ELSE ticks
    /\ UNCHANGED << overflow_checks, rom, continuing, host_at >>

NextKeyWait == KeyWaitTick \/ TickTimers \/ LoadProgram

\* LD V1,d; LD DT,V1; LD ST,V1; LD Vx,K; then a jump to itself.
KeyWaitRom(d, x) ==
    Assemble(<< XKK(6, 1, d), XKK(15, 1, 21), XKK(15, 1, 24), XKK(15, x, 10),
                NNN(1, At(4)) >>)

KeyWaitRegs == {3, FLAG}
KeyWaitDelays == {1, 3}

KeyWaitRoms ==
    {KeyRom} \cup {KeyWaitRom(d, x) : d \in KeyWaitDelays, x \in KeyWaitRegs}

\* Where the programs above hold their LD Vx,K.
KeyWaitAddrs == {At(0), At(3)}

\* Fairness: Keypad::pressed_key eventually answers a key at a tick of the
\* waiting machine.
SpecKeyWait ==
    /\ InitWith(KeyWaitRoms)
    /\ [][NextKeyWait]_vars
    /\ WF_vars(KeyWaitTick /\ KeyAnswered')

\* C30: a machine at LD Vx,K whose host keeps calling tick, with
\* Input.pressedKey() eventually answering a key at a tick, eventually
\* leaves the instruction with registers[x] equal to that key and the
\* program counter 2 past the instruction; until then every tick returns
\* true and leaves the program counter at the instruction, and every
\* tickTimers call in between only lowers the timers.
C30_KeyWaitEnds ==
    /\ [][ \A x \in 0..FLAG :
              (AwaitsKey(x) /\ KeyWaitTick /\ ~KeyAnswered') =>
                  /\ returned' = "true"
                  /\ ip' = ip
                  /\ registers' = registers
                  /\ AwaitsKey(x)'
         ]_vars
    /\ [][ \A x \in 0..FLAG :
              (AwaitsKey(x) /\ TickTimers) =>
                  /\ ip' = ip
                  /\ registers' = registers
                  /\ AwaitsKey(x)'
                  /\ \A t \in DOMAIN timers : timers'[t] <= timers[t]
         ]_vars
    /\ \A a \in KeyWaitAddrs : \A x \in KeyWaitRegs :
          (AwaitsKey(x) /\ ip = a)
              ~> (/\ KeyAnswered
                  /\ returned = "true"
                  /\ opcode = XKK(15, x, 10)
                  /\ registers[x] = calls[1][4]
                  /\ ip = a + 2)

\* C30 witness: LD V3,K was ticked without a key at least twice while three
\* tickTimers calls ran the delay timer down, then a tick was answered key 3
\* and the machine has left the instruction.
C30_Witness ==
    /\ rom = KeyWaitRom(3, 3)
    /\ ticks = TickBudget
    /\ KeyAnswered
    /\ opcode = XKK(15, 3, 10)
    /\ registers[3] = 3
    /\ ip = At(4)
    /\ timers[DELAY_TIMER] = 0

\* --------------------------------------------------------------------- C31
\* LD V1,v; LD DT,V1; LD V2,s; LD ST,V2; LD Vy,DT; LD V5,DT; then a jump to
\* itself: the delay timer is loaded, the sound timer is loaded after it, and
\* the delay timer is read twice.
DelayRom(v, s, y) ==
    Assemble(<< XKK(6, 1, v), XKK(15, 1, 21), XKK(6, 2, s), XKK(15, 2, 24),
                XKK(15, y, 7), XKK(15, 5, 7), NNN(1, At(6)) >>)

DelayValues == {0, 2, 5}
DelayRegs == {1, 3, FLAG}

DelayRoms ==
    { DelayRom(v, s, y) : v \in DelayValues, s \in TimerValues, y \in DelayRegs }

SpecDelay == InitWith(DelayRoms) /\ [][Next]_vars

\* v - k, and 0 when that is negative.
Remaining(v, k) == IF v > k THEN v - k ELSE 0

\* C31: when tick has executed LD DT,Vx with registers[x] = v, then exactly
\* k tickTimers calls have occurred, interleaved with any ticks that execute
\* no LD DT,Vx, and tick now executes LD Vy,DT, registers[y] becomes
\* max(v - k, 0), whatever the sound timer holds and whether or not an
\* LD ST,Vx ran in between.  (Past MaxTimerCalls calls the count is only a
\* lower bound of k, and so is the value read an upper bound.)
C31_DelayRoundTrip ==
    [][ (/\ TickStep /\ returned' = "true"
         /\ OpHigh(opcode') = 15 /\ OpKK(opcode') = 7
         /\ delay_loaded # -1) =>
            IF timer_calls < MaxTimerCalls
            THEN registers'[OpX(opcode')] = Remaining(delay_loaded, timer_calls)
            ELSE registers'[OpX(opcode')] <= Remaining(delay_loaded, timer_calls)
      ]_vars

\* C31 witness: LD DT,V1 loaded 2, three tickTimers calls followed, one of
\* them before LD ST,V2 loaded 3 and two after it, and LD V3,DT has just read
\* 0 while the sound timer is still running.
C31_Witness ==
    /\ rom = DelayRom(2, 3, 3)
    /\ opcode = XKK(15, 3, 7)
    /\ returned = "true"
    /\ delay_loaded = 2
    /\ timer_calls = 3
    /\ registers[3] = 0
    /\ timers[SOUND_TIMER] = 1
====
